---- MODULE Spec2Model ----
(***************************************************************************)
(* Model of app.py: analyze_liquidity_risk, the bulk liquidity analysis.   *)
(*                                                                         *)
(* Numbers.  pandas/numpy floats are modelled as extended fixed-point      *)
(* values: a record [kind, val] with kind "fin" (val is the number),       *)
(* "inf" (val is the sign), "nan", or "none" (Python None).  Prices and    *)
(* volumes are whole units; percentages and scores are in thousandths      *)
(* (7500 is 7.5 %, 70000 is a score of 70.0).                              *)
(*                                                                         *)
(* Symbols are ticker codes, ordered as the ticker strings are ordered.    *)
(***************************************************************************)
EXTENDS Integers, Sequences, FiniteSets

VARIABLES
    has_symbol,    \* 'Symbol' in stock_list.columns
    start_date,    \* st.date_input("Start date")
    end_date,      \* st.date_input("End date")
    stock_list,    \* stock_list['Symbol'], in sheet order
    provider,      \* what yf.download does for the ticker at each position
    pc,            \* position of the main (script) thread
    i,             \* loop variable of `for i in range(0, total_stocks, batch_size)`
    batch,         \* positions of the current slice stock_list['Symbol'][i:i+batch_size]
    futures,       \* the list `futures` of the current executor
    j,             \* index of the future the collection loop is waiting on
    results,       \* the list `results`
    progress_log,  \* every value written by status_text.text, in order
    results_df,    \* the sorted dataframe
    summary,       \* the three st.metric values
    csv_offered,   \* st.download_button was rendered
    dispatched,    \* history: positions ever handed to executor.submit
    collected      \* history: positions whose future.result() has returned

vars == <<has_symbol, start_date, end_date, stock_list, provider, pc, i, batch,
          futures, j, results, progress_log, results_df, summary, csv_offered,
          dispatched, collected>>

-----------------------------------------------------------------------------
(* Bounds of the model *)

MaxTickers == 3        \* longest ticker list of the data specification
MaxSchedTickers == 15  \* longest ticker list of the scheduling specification
MaxFairTickers == 4    \* longest ticker list of the fair specification

(* Program constants *)

batch_size == 10
\* a pool one worker larger
max_workers_plus_one == 5 + 1

max_workers == 5
HighBelow == 40000     \* liquidity_score < 40  -> 'High Risk'
MediumBelow == 70000   \* liquidity_score < 70  -> 'Medium Risk'

-----------------------------------------------------------------------------
(* Extended numbers *)

Fin(n) == [kind |-> "fin", val |-> n]
PosInf == [kind |-> "inf", val |-> 1]
NegInf == [kind |-> "inf", val |-> -1]
NaN == [kind |-> "nan", val |-> 0]
None == [kind |-> "none", val |-> 0]

\* pd.isna(x): None and NaN are both missing
IsNA(x) == x.kind \in {"nan", "none"}

\* x > 0 on floats: False for NaN
GtZero(x) == \/ (x.kind = "fin" /\ x.val > 0)
             \/ x = PosInf

\* x < n on floats, n finite: False for NaN
LessThan(x, n) == \/ (x.kind = "fin" /\ x.val < n)
                  \/ x = NegInf

\* x >= y on floats neither of which is NaN
GreaterEq(x, y) ==
    IF x.kind = "fin" /\ y.kind = "fin" THEN x.val >= y.val
    ELSE IF x.kind = "inf" /\ y.kind = "inf" THEN x.val >= y.val
    ELSE IF x.kind = "inf" THEN x.val = 1
    ELSE y.val = -1

RECURSIVE SumSeq(_)
SumSeq(s) == IF s = <<>> THEN 0 ELSE Head(s).val + SumSeq(Tail(s))

IsNotNaN(x) == ~IsNA(x)
IsPosInf(x) == x = PosInf
IsNegInf(x) == x = NegInf

\* Series.mean() with skipna=True: missing values are skipped, the mean of
\* nothing is NaN, inf dominates, inf + -inf is NaN
SeriesMean(s) ==
    LET vals == SelectSeq(s, IsNotNaN)
        pos == SelectSeq(vals, IsPosInf) # <<>>
        neg == SelectSeq(vals, IsNegInf) # <<>>
    IN  IF vals = <<>> THEN NaN
        ELSE IF pos /\ neg THEN NaN
        ELSE IF pos THEN PosInf
        ELSE IF neg THEN NegInf
        ELSE Fin(SumSeq(vals) \div Len(vals))

\* np.log10 in thousandths, on the average volumes of ProviderResponses
Log10Milli(v) ==
    CASE v = 1000 -> 3000
      [] v = 5000500 -> 6699
      [] v = 10000000 -> 7000

-----------------------------------------------------------------------------
(* What the market-data provider can answer for one ticker *)

Bar(c, h, l, v) == [Close |-> c, High |-> h, Low |-> l, Volume |-> v]

Raises == [raises |-> TRUE, bars |-> <<>>]
Frame(bars) == [raises |-> FALSE, bars |-> bars]

Liquid == Frame(<<Bar(40, 43, 40, 10000000)>>)            \* spread 7.5 %, score 70.0
Wide == Frame(<<Bar(20, 23, 20, 10000000)>>)              \* spread 15 %, score 40.0
Thin == Frame(<<Bar(40, 43, 40, 1000), Bar(40, 43, 40, 1000)>>)  \* score 35.7
ZeroClose == Frame(<<Bar(40, 43, 40, 10000000), Bar(0, 1, 0, 1000)>>)
FlatZero == Frame(<<Bar(0, 0, 0, 0)>>)
EmptyFrame == Frame(<<>>)

\* a one-bar series whose score is 100 - 10 p: a different score per position
Graded(p) == Frame(<<Bar(40, 40 + p, 40, 10000000)>>)

ProviderResponses == {Raises, EmptyFrame, Liquid, Wide, Thin, ZeroClose, FlatZero}

-----------------------------------------------------------------------------
(* analyze_single_stock *)

\* stock_data['Close'] * stock_data['Volume']
DollarVolume(b) == Fin(b.Close * b.Volume)

\* (stock_data['High'] - stock_data['Low']) / stock_data['Close'] * 100
BidAskSpread(b) ==
    IF b.Close # 0 THEN Fin(((b.High - b.Low) * 100000) \div b.Close)
    ELSE IF b.High - b.Low > 0 THEN PosInf
    ELSE IF b.High - b.Low < 0 THEN NegInf
    ELSE NaN

DailyVolume(b) == Fin(b.Volume)

Column(bars, F(_)) == [k \in 1..Len(bars) |-> F(bars[k])]

\* np.log10(avg_volume) / 7 if avg_volume > 0 else 0
volume_score(avg_volume) ==
    IF GtZero(avg_volume) THEN Log10Milli(avg_volume.val) \div 7 ELSE 0

\* 1 - (avg_spread / 10) if avg_spread > 0 else 0
spread_score(avg_spread) ==
    IF GtZero(avg_spread)
    THEN IF avg_spread = PosInf THEN NegInf
         ELSE Fin(1000 - (avg_spread.val \div 10))
    ELSE Fin(0)

\* (volume_score * 0.6 + spread_score * 0.4) * 100
liquidity_score(vs, ss) ==
    IF ss.kind = "fin" THEN Fin(vs * 60 + ss.val * 40) ELSE ss

\* the bands with their upper limit included
RiskLevelInclusive(score) ==
    IF LessThan(score, HighBelow + 1) THEN "High Risk"
    ELSE IF LessThan(score, MediumBelow + 1) THEN "Medium Risk"
    ELSE "Low Risk"

RiskLevel(score) ==
    IF LessThan(score, HighBelow) THEN "High Risk"
    ELSE IF LessThan(score, MediumBelow) THEN "Medium Risk"
    ELSE "Low Risk"

\* the value of `return None`
NoResult == [none |-> TRUE]

ErrorResult(symbol) ==
    [Symbol |-> symbol, AvgVolume |-> None, AvgDollarVolume |-> None,
     AvgSpread |-> None, LiquidityScore |-> None, RiskLevel |-> "Error",
     LatestPrice |-> None]

\* stock_data['Close'].iloc[-1] if not pd.isna(...) else None
latest_price(last_close) == IF ~IsNA(last_close) THEN last_close ELSE None

\* the body of the try block, for a download that returned
try_body(symbol, response) ==
    IF response.bars = <<>> THEN NoResult
    ELSE LET bars == response.bars
             avg_volume == SeriesMean(Column(bars, DailyVolume))
             avg_dollar_volume == SeriesMean(Column(bars, DollarVolume))
             avg_spread == SeriesMean(Column(bars, BidAskSpread))
             score == liquidity_score(volume_score(avg_volume),
                                      spread_score(avg_spread))
         IN  [Symbol |-> symbol, AvgVolume |-> avg_volume,
              AvgDollarVolume |-> avg_dollar_volume, AvgSpread |-> avg_spread,
              LiquidityScore |-> score, RiskLevel |-> RiskLevel(score),
              LatestPrice |-> latest_price(Fin(bars[Len(bars)].Close))]

\* an except clause that swallows the exception and returns nothing
analyze_swallowing(symbol, response) ==
    IF response.raises THEN NoResult ELSE try_body(symbol, response)

\* try: ... except Exception: return the error row
analyze_single_stock(symbol, response) ==
    IF response.raises THEN ErrorResult(symbol) ELSE try_body(symbol, response)

\* a collection loop without the `if result:` test
TruthyAlways(result) == TRUE

\* `if result:` a dict with keys is truthy, None is not
Truthy(result) == result # NoResult

-----------------------------------------------------------------------------
(* results_df.sort_values('Liquidity Score', ascending=False) *)

Min(a, b) == IF a < b THEN a ELSE b

HasScore(row) == ~IsNA(row.LiquidityScore)
ScoreMissing(row) == IsNA(row.LiquidityScore)

\* positions of `rows` whose score no other position of S exceeds
Largest(rows, S) ==
    {a \in S : \A b \in S : GreaterEq(rows[a].LiquidityScore, rows[b].LiquidityScore)}

\* every arrangement of the positions S by descending score.  The default
\* kind='quicksort' is not a stable sort: rows of equal score may come out
\* in any order.
RECURSIVE DescendingOrders(_, _)
DescendingOrders(rows, S) ==
    IF S = {} THEN {<<>>}
    ELSE UNION {{<<a>> \o t : t \in DescendingOrders(rows, S \ {a})} :
                a \in Largest(rows, S)}

\* a dataframe left in the order of `results`
SortValuesSkipped(rows) == {rows}

\* the dataframes sort_values may return: rows with a score by descending
\* score, then the rows whose score is missing (na_position='last') in
\* their original order
SortValues(rows) ==
    LET scored == SelectSeq(rows, HasScore)
        missing == SelectSeq(rows, ScoreMissing)
    IN  {[k \in 1..Len(scored) |-> scored[o[k]]] \o missing :
         o \in DescendingOrders(scored, 1..Len(scored))}

-----------------------------------------------------------------------------
(* Summary statistics *)

\* results_df[results_df['Risk Level'].isin([...])]
IsValidRow(row) == row.RiskLevel \in {"High Risk", "Medium Risk", "Low Risk"}
IsHighRisk(row) == row.RiskLevel = "High Risk"

ScoreOf(row) == row.LiquidityScore

\* f"{x:.1f}": tenths, the nearest one, a tie going to the even tenth
Format1f(x) ==
    IF x.kind = "fin"
    THEN LET q == x.val \div 100
             r == x.val % 100
         IN  [text |-> "number",
              tenths |-> IF r > 50 \/ (r = 50 /\ q % 2 = 1) THEN q + 1 ELSE q]
    ELSE [text |-> "inf", tenths |-> x.val]

NotAvailable == [text |-> "N/A", tenths |-> 0]

NoSummary == [total |-> 0, avg_score |-> NotAvailable, high_risk |-> 0]

\* a first metric that counts the successful analyses only
SummaryOfValid(res, df) ==
    LET valid_results == SelectSeq(df, IsValidRow)
        avg_score == SeriesMean(Column(valid_results, ScoreOf))
    IN  [total |-> Len(valid_results),
         avg_score |-> IF ~IsNA(avg_score) THEN Format1f(avg_score) ELSE NotAvailable,
         high_risk |-> Len(SelectSeq(valid_results, IsHighRisk))]

Summary(res, df) ==
    LET valid_results == SelectSeq(df, IsValidRow)
        avg_score == SeriesMean(Column(valid_results, ScoreOf))
    IN  [total |-> Len(res),
         avg_score |-> IF ~IsNA(avg_score) THEN Format1f(avg_score) ELSE NotAvailable,
         high_risk |-> Len(SelectSeq(valid_results, IsHighRisk))]

-----------------------------------------------------------------------------
(* Initial states *)

\* a sheet listing its symbols A to Z, and one listing them Z to A
Identity(n) == [k \in 1..n |-> k]
Reversed(n) == [k \in 1..n |-> n + 1 - k]

\* the sheet passes or fails each configuration check
Configurations ==
    {<<TRUE, 1, 2>>, <<TRUE, 2, 2>>, <<TRUE, 2, 1>>, <<FALSE, 1, 2>>}

InitControl ==
    /\ pc = "load"
    /\ i = 0
    /\ batch = <<>>
    /\ futures = <<>>
    /\ j = 1
    /\ results = <<>>
    /\ progress_log = <<>>
    /\ results_df = <<>>
    /\ summary = NoSummary
    /\ csv_offered = FALSE
    /\ dispatched = {}
    /\ collected = {}
    /\ \E c \in Configurations :
          /\ has_symbol = c[1]
          /\ start_date = c[2]
          /\ end_date = c[3]

\* short ticker lists, every provider answer for every ticker
Init ==
    /\ InitControl
    /\ \E n \in 0..MaxTickers :
          /\ stock_list \in {Identity(n), Reversed(n)}
          /\ provider \in [1..n -> ProviderResponses]

\* every mix of downloads that raise, return nothing and return bars
InitFair ==
    /\ InitControl
    /\ \E n \in 0..MaxFairTickers :
          /\ stock_list = Identity(n)
          /\ provider \in [1..n -> {Raises, EmptyFrame, Liquid}]

\* ticker lists longer than a batch; every ticker has a score of its own,
\* but for the first or the last one, which may raise or have no data
InitSched ==
    /\ InitControl
    /\ \E n \in 0..MaxSchedTickers :
          /\ stock_list = Identity(n)
          /\ \E f \in {0, 1, n}, r \in {Raises, EmptyFrame} :
                provider = [p \in 1..n |-> IF p = f THEN r ELSE Graded(p)]

-----------------------------------------------------------------------------
(* The script thread *)

total_stocks == Len(stock_list)

\* if 'Symbol' not in stock_list.columns: st.error(...); return
LoadStockList ==
    /\ pc = "load"
    /\ pc' = IF has_symbol THEN "dates" ELSE "config_error"
    /\ UNCHANGED <<has_symbol, start_date, end_date, stock_list, provider, i,
                   batch, futures, j, results, progress_log, results_df,
                   summary, csv_offered, dispatched, collected>>

\* if start_date >= end_date: st.error(...); return
CheckDates ==
    /\ pc = "dates"
    /\ pc' = IF start_date >= end_date THEN "config_error" ELSE "button"
    /\ UNCHANGED <<has_symbol, start_date, end_date, stock_list, provider, i,
                   batch, futures, j, results, progress_log, results_df,
                   summary, csv_offered, dispatched, collected>>

\* if st.button("Analyze All Stocks"): results = []
ClickAnalyze ==
    /\ pc = "button"
    /\ results' = <<>>
    /\ i' = 0
    /\ pc' = "loop"
    /\ UNCHANGED <<has_symbol, start_date, end_date, stock_list, provider,
                   batch, futures, j, progress_log, results_df, summary,
                   csv_offered, dispatched, collected>>

\* stock_list['Symbol'][i:i+batch_size], as positions of the list
Slice(from) == [k \in 1..(Min(from + batch_size, total_stocks) - from) |-> from + k]

\* for i in range(0, total_stocks, batch_size): batch = ...; with ThreadPoolExecutor
NextBatch ==
    /\ pc = "loop"
    /\ IF i < total_stocks
       THEN /\ batch' = Slice(i)
            /\ futures' = <<>>
            /\ pc' = "submit"
       ELSE /\ pc' = "report"
            /\ UNCHANGED <<batch, futures>>
    /\ UNCHANGED <<has_symbol, start_date, end_date, stock_list, provider, i,
                   j, results, progress_log, results_df, summary, csv_offered,
                   dispatched, collected>>

\* executor.submit(analyze_single_stock, symbol), one symbol of the batch
Submit ==
    /\ pc = "submit"
    /\ LET pos == batch[Len(futures) + 1]
       IN  /\ futures' = Append(futures, [pos |-> pos, state |-> "PENDING",
                                          result |-> NoResult])
           /\ dispatched' = dispatched \cup {pos}
    /\ IF Len(futures) + 1 = Len(batch)
       THEN pc' = "collect" /\ j' = 1
       ELSE UNCHANGED <<pc, j>>
    /\ UNCHANGED <<has_symbol, start_date, end_date, stock_list, provider, i,
                   batch, results, progress_log, results_df, summary,
                   csv_offered, collected>>

Running == {k \in 1..Len(futures) : futures[k].state = "RUNNING"}

\* a worker thread of the pool takes the oldest queued work item
WorkerStart ==
    /\ Cardinality(Running) < max_workers
    /\ \E k \in 1..Len(futures) :
          /\ futures[k].state = "PENDING"
          /\ \A m \in 1..(k - 1) : futures[m].state # "PENDING"
          /\ futures' = [futures EXCEPT ![k].state = "RUNNING"]
    /\ UNCHANGED <<has_symbol, start_date, end_date, stock_list, provider, pc,
                   i, batch, j, results, progress_log, results_df, summary,
                   csv_offered, dispatched, collected>>

\* analyze_single_stock returns in a worker: the future holds its result
WorkerFinish ==
    /\ \E k \in Running :
          futures' = [futures EXCEPT
                        ![k].state = "FINISHED",
                        ![k].result = analyze_single_stock(
                                          stock_list[futures[k].pos],
                                          provider[futures[k].pos])]
    /\ UNCHANGED <<has_symbol, start_date, end_date, stock_list, provider, pc,
                   i, batch, j, results, progress_log, results_df, summary,
                   csv_offered, dispatched, collected>>

\* the futures a future.result() call of the collection loop can return from
\* when a worker finishes: one that completes in any order would be
CollectableAsCompleted == 1..Len(futures)

\* `for future in futures`: the loop waits on the futures in submission order
Collectable == {j}

\* result = future.result(); if result: results.append(result)
CollectResult ==
    /\ pc = "collect"
    /\ \E k \in Collectable :
          /\ futures[k].state = "FINISHED"
          /\ futures[k].pos \notin collected
          /\ results' = IF Truthy(futures[k].result)
                        THEN Append(results, futures[k].result)
                        ELSE results
          /\ collected' = collected \cup {futures[k].pos}
    /\ IF j = Len(futures)
       THEN pc' = "progress" /\ j' = j
       ELSE pc' = pc /\ j' = j + 1
    /\ UNCHANGED <<has_symbol, start_date, end_date, stock_list, provider, i,
                   batch, futures, progress_log, results_df, summary,
                   csv_offered, dispatched>>

\* a count without the min(...)
ProcessedUnclamped(from) == from + batch_size

\* status_text.text(f"Processed {min(i + batch_size, total_stocks)}/...")
Processed(from) == Min(from + batch_size, total_stocks)

\* the with block is left (shutdown waits for the workers), progress is shown
UpdateProgress ==
    /\ pc = "progress"
    /\ \A k \in 1..Len(futures) : futures[k].state = "FINISHED"
    /\ progress_log' = Append(progress_log, Processed(i))
    /\ i' = i + batch_size
    /\ pc' = "loop"
    /\ UNCHANGED <<has_symbol, start_date, end_date, stock_list, provider,
                   batch, futures, j, results, results_df, summary,
                   csv_offered, dispatched, collected>>

\* a report step without the `if not results` return
ReportUnconditional ==
    /\ pc = "report"
    /\ results_df' \in SortValues(results)
    /\ summary' = Summary(results, results_df')
    /\ csv_offered' = TRUE
    /\ pc' = "done"
    /\ UNCHANGED <<has_symbol, start_date, end_date, stock_list, provider, i,
                   batch, futures, j, results, progress_log, dispatched,
                   collected>>

\* if not results: st.error(...); return -- else sort, show, summarise, export
Report ==
    /\ pc = "report"
    /\ IF results = <<>>
       THEN /\ pc' = "no_data"
            /\ UNCHANGED <<results_df, summary, csv_offered>>
       ELSE /\ results_df' \in SortValues(results)
            /\ summary' = Summary(results, results_df')
            /\ csv_offered' = TRUE
            /\ pc' = "done"
    /\ UNCHANGED <<has_symbol, start_date, end_date, stock_list, provider, i,
                   batch, futures, j, results, progress_log, dispatched,
                   collected>>

Next ==
    \/ LoadStockList
    \/ CheckDates
    \/ ClickAnalyze
    \/ NextBatch
    \/ Submit
    \/ WorkerStart
    \/ WorkerFinish
    \/ CollectResult
    \/ UpdateProgress
    \/ Report

Spec == Init /\ [][Next]_vars

SpecSched == InitSched /\ [][Next]_vars

\* once the button is pressed the script thread and the pool's workers keep
\* running, and every download returns or raises
RunStep ==
    \/ NextBatch
    \/ Submit
    \/ WorkerStart
    \/ WorkerFinish
    \/ CollectResult
    \/ UpdateProgress
    \/ Report

FairSpec == InitFair /\ [][Next]_vars /\ WF_vars(RunStep)

-----------------------------------------------------------------------------
(* Vocabulary of the properties *)

Positions == 1..Len(stock_list)
PosOf(symbol) == CHOOSE p \in Positions : stock_list[p] = symbol
RunOver == pc \in {"done", "no_data"}
RaisesAt(p) == provider[p].raises
EmptyAt(p) == ~provider[p].raises /\ provider[p].bars = <<>>
RowsOf(p) == {k \in 1..Len(results) : results[k].Symbol = stock_list[p]}
IsFailure(row) == row.RiskLevel = "Error"
FailureRows == {k \in 1..Len(results) : IsFailure(results[k])}
SuccessRows == {k \in 1..Len(results) : ~IsFailure(results[k])}
BatchOf(p) == (p - 1) \div 10
InFlight == {futures[k].pos : k \in Running}
EncounterIndex(row) == CHOOSE k \in 1..Len(results) : results[k] = row
HasZeroClose(response) ==
    \E k \in 1..Len(response.bars) : response.bars[k].Close = 0

RECURSIVE SumOfScores(_)
SumOfScores(K) ==
    IF K = {} THEN 0
    ELSE LET k == CHOOSE x \in K : TRUE
         IN  results[k].LiquidityScore.val + SumOfScores(K \ {k})

-----------------------------------------------------------------------------
C2_StateAtEnd ==
    RunOver =>
      /\ collected = Positions
      /\ Cardinality(FailureRows) = Cardinality({p \in Positions : RaisesAt(p)})
      /\ \A k \in FailureRows : RaisesAt(PosOf(results[k].Symbol))
      /\ \A p \in Positions :
            ~RaisesAt(p) =>
               /\ \A k \in RowsOf(p) :
                     results[k] = try_body(stock_list[p], provider[p])
               /\ ~EmptyAt(p) => RowsOf(p) # {}

C3_SequentialBatches ==
    /\ Cardinality(Running) <= 5
    /\ \A a, b \in InFlight : BatchOf(a) = BatchOf(b)
    /\ \A a, b \in dispatched : BatchOf(a) < BatchOf(b) => a \in collected
    /\ \A a, b \in dispatched \ collected : BatchOf(a) = BatchOf(b)

C3_Witness ==
    /\ Cardinality(Running) = 5
    /\ i = 10
    /\ Cardinality(collected) = 10

\* C4: progress is written once per completed batch and only when every
\* dispatched ticker has been collected; the counts written never decrease,
\* never exceed the number of tickers, and the last one equals it.
C4_CompletedBatches ==
    IF Cardinality(collected) = Len(stock_list)
    THEN (Len(stock_list) + 9) \div 10
    ELSE Cardinality(collected) \div 10

C4_State ==
    /\ \A a \in 1..Len(progress_log) : progress_log[a] <= Len(stock_list)
    /\ \A a, b \in 1..Len(progress_log) :
          a < b => progress_log[a] <= progress_log[b]
    /\ Len(progress_log) =
          IF pc = "progress" THEN C4_CompletedBatches - 1
          ELSE C4_CompletedBatches
    /\ (RunOver \/ pc = "report") /\ stock_list # <<>> =>
          progress_log[Len(progress_log)] = Len(stock_list)

C4_Step ==
    progress_log' # progress_log =>
      /\ \E n \in 0..Len(stock_list) : progress_log' = Append(progress_log, n)
      /\ collected = dispatched
      /\ Running = {}
      /\ progress_log'[Len(progress_log')] = Cardinality(collected)

\* C4: the progress log satisfies the state condition in every state and
\* the step condition at every write.
C4_ProgressPerBatch == []C4_State /\ [][C4_Step]_vars

C4_Witness ==
    /\ pc = "done"
    /\ Len(stock_list) = 13
    /\ progress_log = <<10, 13>>

\* C5: the outcomes in `results` are in the order of the ticker list, within
\* and across batches, whichever worker finishes first.
C5_InputOrder ==
    \A a, b \in 1..Len(results) :
       a < b => PosOf(results[a].Symbol) < PosOf(results[b].Symbol)

C5_Witness ==
    /\ pc = "collect"
    /\ futures[j].state = "RUNNING"
    /\ \E k \in (j + 1)..Len(futures) : futures[k].state = "FINISHED"
    /\ results # <<>>

C7_ZeroCloseIsFailure ==
    \A k \in 1..Len(results) :
       HasZeroClose(provider[PosOf(results[k].Symbol)]) =>
          /\ results[k].RiskLevel = "Error"
          /\ results[k].LiquidityScore = None

C7_Witness ==
    \E k \in 1..Len(results) :
       /\ HasZeroClose(provider[PosOf(results[k].Symbol)])
       /\ results[k].LiquidityScore = NegInf
       /\ results[k].RiskLevel = "High Risk"

C9_RiskBands ==
    \A k \in 1..Len(results) :
       LET row == results[k]
           score == row.LiquidityScore
       IN  /\ IsFailure(row) <=> RaisesAt(PosOf(row.Symbol))
           /\ IsFailure(row) <=> score = None
           /\ ~IsFailure(row) =>
                 /\ row.RiskLevel = "Low Risk" <=> GreaterEq(score, Fin(70000))
                 /\ row.RiskLevel = "Medium Risk" <=>
                       GreaterEq(score, Fin(40000)) /\ ~GreaterEq(score, Fin(70000))
                 /\ row.RiskLevel = "High Risk" <=> ~GreaterEq(score, Fin(40000))

C9_Witness ==
    /\ \E k \in 1..Len(results) :
          results[k].LiquidityScore = Fin(70000) /\ results[k].RiskLevel = "Low Risk"
    /\ \E k \in 1..Len(results) :
          results[k].LiquidityScore = Fin(40000) /\ results[k].RiskLevel = "Medium Risk"
    /\ \E k \in 1..Len(results) : results[k].RiskLevel = "High Risk"

====
